---------------------------- MODULE Spec2Model ----------------------------
(***************************************************************************)
(* A model of src/pytorch_lightning/module.py: BaseModule (hyperparameter  *)
(* store, weight-decay parameter groups, training-schedule counters,       *)
(* optimizer/scheduler construction) and BaseDataModule (dataset handles,  *)
(* loaders, sample).                                                       *)
(*                                                                         *)
(* Python values are tagged records: None is [type |-> "None"], an int is  *)
(* [type |-> "int", v |-> n] and a float is the rational num/den,          *)
(* [type |-> "float", num |-> n, den |-> d].  The float values the         *)
(* specifications draw are ones for which the IEEE product with the        *)
(* integers drawn beside them truncates to the same integer as the exact   *)
(* rational product.                                                       *)
(*                                                                         *)
(* Every call is one action; it leaves its outcome in the variable `call`. *)
(***************************************************************************)
EXTENDS Integers, Sequences, FiniteSets

VARIABLES
    hparams,     \* BaseModule.hparams: the configuration store (key -> section)
    trainer,     \* the attributes of self.trainer the module reads
    loaderLen,   \* len(self.train_dataloader()) as the module sees it
    named,       \* self.named_parameters(): the sequence of parameter names
    attrs,       \* BaseDataModule instance attributes (an unset one is not in the domain)
    call         \* the last call: its operation, argument and outcome

vars == <<hparams, trainer, loaderLen, named, attrs, call>>

-----------------------------------------------------------------------------
(* Python values *)

None == [type |-> "None"]
PyInt(n) == [type |-> "int", v |-> n]
PyFloat(n, d) == [type |-> "float", num |-> n, den |-> d]

Max2(a, b) == IF a >= b THEN a ELSE b
Min2(a, b) == IF a <= b THEN a ELSE b

\* int(x) of the rational n/d (d > 0): truncation toward zero
TruncDiv(n, d) == IF n >= 0 THEN n \div d ELSE -((-n) \div d)

Range(q) == { q[i] : i \in 1..Len(q) }
NoDuplicates(q) == \A i, j \in 1..Len(q) : i # j => q[i] # q[j]

\* the empty mapping (a fresh AttributeDict, an instance with no attributes)
EmptyMap == [k \in {} |-> None]
NoCall == [op |-> "none"]

-----------------------------------------------------------------------------
(* BaseModule.check_hyperparameters / save_hyperparameters *)

MaxName == 2

Keys == {"trainer", "optimizer", "scheduler", "seed"}

\* the sections a hyperparameter mapping may hold under a key
OptimizerSections ==
    { [name |-> "adamw", params |-> [lr |-> PyFloat(1, 1000)]],
      [name |-> "sgd", params |-> [lr |-> PyFloat(1, 10), weight_decay |-> PyFloat(1, 100)]] }
SchedulerSections ==
    { [name |-> "linear"],
      [name |-> "linear", warmup_size |-> PyInt(20)] }
SectionsOf(k) ==
    CASE k = "optimizer" -> OptimizerSections
      [] k = "scheduler" -> SchedulerSections
      [] OTHER -> { [id |-> i] : i \in 1..MaxName }

\* every mapping from some of the keys to sections
HparamMappings ==
    UNION { { h \in [S -> UNION { SectionsOf(k) : k \in S }] :
                \A k \in S : h[k] \in SectionsOf(k) } : S \in SUBSET Keys }

\* the two asserts: both pass iff both keys are in the mapping
check_hyperparameters(h) ==
    "trainer" \in DOMAIN h /\ "optimizer" \in DOMAIN h

\* for k, v in hparams.items(): self.hparams[k] = v
MergeDropsOthers(store, h) == h
Merge(store, h) ==
    [k \in DOMAIN store \cup DOMAIN h |-> IF k \in DOMAIN h THEN h[k] ELSE store[k]]

\* the store save_hyperparameters(h) leaves, and whether it raised
SaveMergesFirst(store, h) ==
    [raised |-> IF check_hyperparameters(h) THEN "no" ELSE "AssertionError",
     store |-> Merge(store, h)]
SaveOutcome(store, h) ==
    IF check_hyperparameters(h)
    THEN [raised |-> "no", store |-> Merge(store, h)]
    ELSE [raised |-> "AssertionError", store |-> store]

save_hyperparameters(h) ==
    LET out == SaveOutcome(hparams, h) IN
    /\ hparams' = out.store
    /\ call' = [op |-> "save_hyperparameters", arg |-> h, pre |-> hparams,
                raised |-> out.raised]
    /\ UNCHANGED <<trainer, loaderLen, named, attrs>>

InitHparams ==
    /\ hparams = EmptyMap
    /\ trainer = None
    /\ loaderLen = 0
    /\ named = <<>>
    /\ attrs = EmptyMap
    /\ call = NoCall

NextHparams == \E h \in HparamMappings : save_hyperparameters(h)

SpecHparams == InitHparams /\ [][NextHparams]_vars

Required == {"trainer", "optimizer"}
Saved == call.op = "save_hyperparameters"

\* C1: a save_hyperparameters call whose mapping lacks 'trainer' or 'optimizer'
\* raises (AssertionError) and leaves the configuration store exactly as it
\* was before the call.
C1_RejectedLeavesStore ==
    (Saved /\ ~(Required \subseteq DOMAIN call.arg))
        => (call.raised = "AssertionError" /\ hparams = call.pre)

\* a non-empty store, then a mapping with 'trainer' but no 'optimizer' and
\* with a key the store does not hold, rejected
C1_Witness ==
    /\ Saved
    /\ "trainer" \in DOMAIN call.arg /\ "optimizer" \notin DOMAIN call.arg
    /\ Required \subseteq DOMAIN call.pre
    /\ DOMAIN call.arg \ DOMAIN call.pre # {}
    /\ call.raised = "AssertionError"

\* the store is the previous store overridden by the mapping just adopted
OverriddenBy(store, pre, h) ==
    /\ DOMAIN store = DOMAIN pre \cup DOMAIN h
    /\ \A k \in DOMAIN h : store[k] = h[k]
    /\ \A k \in DOMAIN pre \ DOMAIN h : store[k] = pre[k]

\* C8: after any sequence of save_hyperparameters calls, a successful call
\* leaves the store equal to the previous store overridden by its mapping,
\* no call removes a key, and once 'trainer' and 'optimizer' are in the store
\* (one call has succeeded) they are in it in every later state.
C8_MergeKeepsKeys ==
    /\ []((Saved /\ call.raised = "no") => OverriddenBy(hparams, call.pre, call.arg))
    /\ []((Saved /\ call.raised = "no") => Required \subseteq DOMAIN hparams)
    /\ [][DOMAIN hparams \subseteq DOMAIN hparams']_vars
    /\ [][(Required \subseteq DOMAIN hparams) => (Required \subseteq DOMAIN hparams')]_vars

\* a successful call that overwrote a key, added a key and kept a key
C8_Witness ==
    /\ Saved /\ call.raised = "no"
    /\ \E k \in DOMAIN call.pre \cap DOMAIN call.arg : call.pre[k] # call.arg[k]
    /\ DOMAIN call.arg \ DOMAIN call.pre # {}
    /\ DOMAIN call.pre \ DOMAIN call.arg # {}

-----------------------------------------------------------------------------
(* BaseModule.param_groups *)

MaxParams == 2

\* a parameter name is a sequence of characters
UpperToLower ==
    [A |-> "a", B |-> "b", C |-> "c", D |-> "d", E |-> "e", F |-> "f", G |-> "g",
     H |-> "h", I |-> "i", J |-> "j", K |-> "k", L |-> "l", M |-> "m", N |-> "n",
     O |-> "o", P |-> "p", Q |-> "q", R |-> "r", S |-> "s", T |-> "t", U |-> "u",
     V |-> "v", W |-> "w", X |-> "x", Y |-> "y", Z |-> "z"]

\* str.lower()
LowerKeepsCase(n) == n
lower(n) ==
    [i \in 1..Len(n) |-> IF n[i] \in DOMAIN UpperToLower THEN UpperToLower[n[i]] ELSE n[i]]

\* sub in s, for strings
Contains(sub, s) ==
    \E i \in 0..(Len(s) - Len(sub)) : \A j \in 1..Len(sub) : s[i + j] = sub[j]

no_decay ==
    << <<"b", "i", "a", "s">>, <<"b", "n">>, <<"l", "n">>, <<"n", "o", "r", "m">> >>

\* any(nd in n.lower() for nd in no_decay)
IsNoDecay(n) == \E k \in 1..Len(no_decay) : Contains(no_decay[k], lower(n))

\* dict.get(key, default)
Get(d, key, default) == IF key \in DOMAIN d THEN d[key] ELSE default

\* the parameters are identified by their position in named_parameters()
ParamIndices == [i \in 1..Len(named) |-> i]
DecayTest(i) == ~IsNoDecay(named[i])
NoDecayTest(i) == IsNoDecay(named[i])

ParamGroupsValue ==
    << [params |-> SelectSeq(ParamIndices, DecayTest),
        weight_decay |-> Get(hparams.optimizer.params, "weight_decay", PyFloat(0, 1))],
       [params |-> SelectSeq(ParamIndices, NoDecayTest),
        weight_decay |-> PyFloat(0, 1)] >>

param_groups ==
    /\ "optimizer" \in DOMAIN hparams
    /\ call' = [op |-> "param_groups", groups |-> ParamGroupsValue]
    /\ UNCHANGED <<hparams, trainer, loaderLen, named, attrs>>

\* the parameter names the specification draws: prefix + core + suffix
NamePrefixes == { <<>>, <<"B">> }
NameCores ==
    { <<>>, <<"b", "i", "a", "s">>, <<"B", "i", "a", "S">>, <<"b", "i", "a">>,
      <<"L", "n">>, <<"N", "O", "r", "m">>, <<"w">>, <<"l", ".", "n">> }
NameSuffixes == { <<>>, <<"n">> }
Names == { p \o c \o x : p \in NamePrefixes, c \in NameCores, x \in NameSuffixes }

\* named_parameters() yields each name once
NamedParameterLists ==
    UNION { { q \in [1..n -> Names] : \A i, j \in 1..n : i # j => q[i] # q[j] }
            : n \in 0..MaxParams }

GroupStores ==
    { [trainer |-> [id |-> 1], optimizer |-> o] : o \in OptimizerSections }

InitGroups ==
    /\ hparams \in GroupStores
    /\ trainer = None
    /\ loaderLen = 0
    /\ named \in NamedParameterLists
    /\ attrs = EmptyMap
    /\ call = NoCall

NextGroups == param_groups

SpecGroups == InitGroups /\ [][NextGroups]_vars

\* the letter c in either case
UpperOf ==
    [a |-> "A", b |-> "B", i |-> "I", l |-> "L", m |-> "M", n |-> "N", o |-> "O",
     r |-> "R", s |-> "S"]
EitherCase(c) == {c, UpperOf[c]}
\* the name holds the word w, each letter in either case
HoldsWord(w, n) ==
    \E i \in 1..(Len(n) - Len(w) + 1) : \A j \in 1..Len(w) : n[i + j - 1] \in EitherCase(w[j])
NoDecayWords ==
    { <<"b", "i", "a", "s">>, <<"b", "n">>, <<"l", "n">>, <<"n", "o", "r", "m">> }

\* C2: the decay and the no-decay group of param_groups partition the named
\* parameters (each parameter in exactly one group, once); a parameter is in
\* the no-decay group exactly when its name holds 'bias', 'bn', 'ln' or 'norm'
\* in any letter case, so a name holding 'bias' in any case is never decayed.
C2_GroupsPartition ==
    call.op = "param_groups" =>
        LET decay == call.groups[1].params
            nodecay == call.groups[2].params
        IN  /\ Len(call.groups) = 2
            /\ NoDuplicates(decay) /\ NoDuplicates(nodecay)
            /\ Range(decay) \cap Range(nodecay) = {}
            /\ Range(decay) \cup Range(nodecay) = 1..Len(named)
            /\ \A p \in 1..Len(named) :
                 p \in Range(nodecay) <=> \E w \in NoDecayWords : HoldsWord(w, named[p])
            /\ \A p \in 1..Len(named) :
                 HoldsWord(<<"b", "i", "a", "s">>, named[p]) => p \in Range(nodecay)

\* a decayed parameter beside one whose name holds 'bias' with upper-case letters
C2_Witness ==
    /\ call.op = "param_groups"
    /\ call.groups[1].params # <<>>
    /\ \E p \in Range(call.groups[2].params) :
         /\ HoldsWord(<<"b", "i", "a", "s">>, named[p])
         /\ ~Contains(<<"b", "i", "a", "s">>, named[p])

-----------------------------------------------------------------------------
(* BaseModule.num_train_batches / num_devices / num_training_steps /
   num_warmup_steps: the training-schedule counters *)

MaxDevices == 4
MaxAccumulate == 2

\* bool(x) of a Python value
Truthy(x) ==
    CASE x.type = "int" -> x.v # 0
      [] x.type = "float" -> x.num # 0
      [] OTHER -> FALSE

\* len(self.train_dataloader()) limited by trainer.limit_train_batches
NumTrainBatchesMax(raw, t) ==
    IF t.limit_train_batches.type = "float"
    THEN TruncDiv(raw * t.limit_train_batches.num, t.limit_train_batches.den)
    ELSE Max2(t.limit_train_batches.v, raw)
NumTrainBatches(raw, t) ==
    IF t.limit_train_batches.type = "float"
    THEN TruncDiv(raw * t.limit_train_batches.num, t.limit_train_batches.den)
    ELSE Min2(t.limit_train_batches.v, raw)

NumDevicesNoFloor(t) ==
    LET d == Max2(t.num_gpus, t.num_processes) IN
    IF Truthy(t.tpu_cores) THEN Max2(d, t.tpu_cores.v) ELSE d
NumDevices(t) ==
    LET d == Max2(1, Max2(t.num_gpus, t.num_processes)) IN
    IF Truthy(t.tpu_cores) THEN Max2(d, t.tpu_cores.v) ELSE d

NumTrainingSteps(raw, t) ==
    IF Truthy(t.max_steps)
    THEN t.max_steps.v
    ELSE LET devices == IF t.distributed_backend = "dp" THEN 1 ELSE NumDevices(t)
             effective_accum == t.accumulate_grad_batches * devices
         IN  (NumTrainBatches(raw, t) \div effective_accum) * t.max_epochs

\* self.hparams.scheduler raises AttributeError when the store has no such key
NumWarmupStepsIgnoresType(store, raw, t) ==
    IF "scheduler" \notin DOMAIN store
    THEN [raised |-> "AttributeError"]
    ELSE LET warmup_size == Get(store.scheduler, "warmup_size", PyInt(0)) IN
         [raised |-> "no",
          value |-> IF warmup_size.type = "float"
                    THEN TruncDiv(NumTrainingSteps(raw, t) * warmup_size.num, warmup_size.den)
                    ELSE TruncDiv(NumTrainingSteps(raw, t) * warmup_size.v, 1)]
NumWarmupSteps(store, raw, t) ==
    IF "scheduler" \notin DOMAIN store
    THEN [raised |-> "AttributeError"]
    ELSE LET warmup_size == Get(store.scheduler, "warmup_size", PyInt(0)) IN
         [raised |-> "no",
          value |-> IF warmup_size.type = "float"
                    THEN TruncDiv(NumTrainingSteps(raw, t) * warmup_size.num, warmup_size.den)
                    ELSE warmup_size.v]

num_train_batches ==
    /\ call' = [op |-> "num_train_batches", value |-> NumTrainBatches(loaderLen, trainer)]
    /\ UNCHANGED <<hparams, trainer, loaderLen, named, attrs>>

num_devices ==
    /\ call' = [op |-> "num_devices", value |-> NumDevices(trainer)]
    /\ UNCHANGED <<hparams, trainer, loaderLen, named, attrs>>

num_training_steps ==
    /\ call' = [op |-> "num_training_steps", value |-> NumTrainingSteps(loaderLen, trainer)]
    /\ UNCHANGED <<hparams, trainer, loaderLen, named, attrs>>

num_warmup_steps ==
    /\ call' = [op |-> "num_warmup_steps", out |-> NumWarmupSteps(hparams, loaderLen, trainer)]
    /\ UNCHANGED <<hparams, trainer, loaderLen, named, attrs>>

\* the trainer states and train loader lengths the specification draws
LimitValues ==
    { PyFloat(n, 4) : n \in 1..4 } \cup { PyInt(0), PyInt(3), PyInt(200) }
GpuCounts == {0, 1, MaxDevices}
ProcessCounts == {0, 1, 2}
TpuCoreValues == { None, PyInt(0), PyInt(8) }
MaxStepsValues == { None, PyInt(0), PyInt(50) }
\* distributed_backend: "none" stands for None
Backends == { "none", "dp", "ddp" }
EpochCounts == {1, 3}
RawBatchCounts == {0, 7, 100}

Trainers ==
    [ limit_train_batches : LimitValues,
      num_gpus : GpuCounts,
      num_processes : ProcessCounts,
      tpu_cores : TpuCoreValues,
      max_steps : MaxStepsValues,
      distributed_backend : Backends,
      accumulate_grad_batches : 1..MaxAccumulate,
      max_epochs : EpochCounts ]

WarmupSections ==
    { [name |-> "linear"],
      [name |-> "linear", warmup_size |-> PyInt(20)],
      [name |-> "linear", warmup_size |-> PyFloat(1, 10)],
      [name |-> "linear", warmup_size |-> PyFloat(-1, 2)] }
BaseStore == [trainer |-> [id |-> 1], optimizer |-> [name |-> "adamw", params |-> [lr |-> PyFloat(1, 1000)]]]
CounterStores ==
    { BaseStore } \cup
    { Merge(BaseStore, [scheduler |-> sec]) : sec \in WarmupSections }

InitCounters ==
    /\ hparams \in CounterStores
    /\ trainer \in Trainers
    /\ loaderLen \in RawBatchCounts
    /\ named = <<>>
    /\ attrs = EmptyMap
    /\ call = NoCall

NextCounters ==
    \/ num_train_batches
    \/ num_devices
    \/ num_training_steps
    \/ num_warmup_steps

SpecCounters == InitCounters /\ [][NextCounters]_vars

\* n is x truncated toward zero, for the rational x = num/den (den > 0)
IsTruncation(n, num, den) ==
    IF num >= 0
    THEN n * den <= num /\ num < (n + 1) * den
    ELSE (n - 1) * den < num /\ num <= n * den

\* n is the greatest member of the set S of integers
IsMaximum(n, S) == n \in S /\ \A x \in S : x <= n

\* C3: num_training_steps is the trainer's max_steps whenever the trainer
\* specifies one; otherwise (num_train_batches floor-divided by
\* (accumulate_grad_batches x effective devices)) x max_epochs, where the
\* effective device count is 1 under 'dp' and num_devices otherwise.
C3_TotalTrainingSteps ==
    call.op = "num_training_steps" =>
        IF trainer.max_steps # None
        THEN call.value = trainer.max_steps.v
        ELSE LET devices == IF trainer.distributed_backend = "dp" THEN 1 ELSE NumDevices(trainer)
                 accum == trainer.accumulate_grad_batches * devices
                 batches == NumTrainBatches(loaderLen, trainer)
             IN  \E q \in 0..batches :
                    /\ q * accum <= batches /\ batches < (q + 1) * accum
                    /\ call.value = q * trainer.max_epochs

\* C4: num_warmup_steps reads scheduler.warmup_size, default 0; a float
\* warmup_size gives num_training_steps x warmup_size truncated toward zero
\* (0.1 of 150 steps is 15), an int warmup_size is returned as it is, whatever
\* num_training_steps is.
C4_WarmupSteps ==
    (call.op = "num_warmup_steps" /\ "scheduler" \in DOMAIN hparams) =>
        LET total == NumTrainingSteps(loaderLen, trainer)
            sec == hparams.scheduler
        IN  /\ call.out.raised = "no"
            /\ "warmup_size" \notin DOMAIN sec => call.out.value = 0
            /\ ("warmup_size" \in DOMAIN sec /\ sec.warmup_size.type = "int")
                  => call.out.value = sec.warmup_size.v
            /\ ("warmup_size" \in DOMAIN sec /\ sec.warmup_size.type = "float")
                  => IsTruncation(call.out.value, total * sec.warmup_size.num, sec.warmup_size.den)
            /\ ("warmup_size" \in DOMAIN sec /\ sec.warmup_size = PyFloat(1, 10) /\ total = 150)
                  => call.out.value = 15

\* warmup_size 0.1 with 150 training steps gave 15
C4_Witness ==
    /\ call.op = "num_warmup_steps"
    /\ "scheduler" \in DOMAIN hparams
    /\ "warmup_size" \in DOMAIN hparams.scheduler
    /\ hparams.scheduler.warmup_size = PyFloat(1, 10)
    /\ NumTrainingSteps(loaderLen, trainer) = 150
    /\ call.out.value = 15

\* C5: num_train_batches is the train loader's length limited by
\* limit_train_batches: a float limit in (0, 1] gives length x limit truncated
\* toward zero, an int limit gives the minimum of the limit and the length;
\* either way the result is at most the length.
C5_TrainBatchCount ==
    call.op = "num_train_batches" =>
        LET limit == trainer.limit_train_batches IN
        /\ (limit.type = "float" /\ 0 < limit.num /\ limit.num <= limit.den)
              => /\ IsTruncation(call.value, loaderLen * limit.num, limit.den)
                 /\ call.value <= loaderLen
        /\ limit.type = "int"
              => /\ IsMaximum(-call.value, {-limit.v, -loaderLen})
                 /\ call.value <= loaderLen

\* a float limit whose product with the length was truncated
C5_Witness ==
    /\ call.op = "num_train_batches"
    /\ trainer.limit_train_batches.type = "float"
    /\ call.value > 0
    /\ call.value * trainer.limit_train_batches.den
         < loaderLen * trainer.limit_train_batches.num

\* C9: num_devices is the maximum of 1, num_gpus and num_processes, and of
\* tpu_cores too when TPU cores are configured; it is never less than 1.
C9_DeviceCount ==
    call.op = "num_devices" =>
        /\ IsMaximum(call.value,
                     {1, trainer.num_gpus, trainer.num_processes}
                       \cup (IF trainer.tpu_cores = None THEN {} ELSE {trainer.tpu_cores.v}))
        /\ call.value >= 1

\* the TPU core count decided the result
C9_Witness ==
    /\ call.op = "num_devices"
    /\ trainer.tpu_cores # None
    /\ trainer.tpu_cores.v > Max2(trainer.num_gpus, trainer.num_processes)
    /\ call.value = trainer.tpu_cores.v

-----------------------------------------------------------------------------
(* BaseModule.configure_optimizers *)

\* get_optimizer and get_scheduler are external factories: the object each
\* returns is the record of the arguments it was built from
get_optimizer(name, groups, kwargs) ==
    [kind |-> "optimizer", name |-> name, param_groups |-> groups, kwargs |-> kwargs]
get_scheduler(name, optimizer, warmup, total) ==
    [kind |-> "scheduler", name |-> name, optimizer |-> optimizer,
     num_warmup_steps |-> warmup, num_training_steps |-> total]

\* what configure_optimizers returns, and the members and factories it
\* evaluated, in order
ConfigureAlwaysSchedules(store, raw, t) ==
    LET optimizer == get_optimizer(store.optimizer.name, ParamGroupsValue, store.optimizer.params)
        warmup == NumWarmupSteps(store, raw, t)
    IN  IF warmup.raised = "no"
        THEN [raised |-> "no",
              value |-> IF "scheduler" \in DOMAIN store
                        THEN << <<optimizer>>,
                                <<get_scheduler(store.scheduler.name, optimizer, warmup.value,
                                                NumTrainingSteps(raw, t))>> >>
                        ELSE optimizer,
              evaluated |-> <<"param_groups", "get_optimizer", "num_warmup_steps",
                              "num_training_steps", "get_scheduler">>]
        ELSE [raised |-> warmup.raised,
              evaluated |-> <<"param_groups", "get_optimizer", "num_warmup_steps">>]
ConfigureOptimizers(store, raw, t) ==
    LET optimizer == get_optimizer(store.optimizer.name, ParamGroupsValue, store.optimizer.params)
    IN  IF "scheduler" \in DOMAIN store
        THEN [raised |-> "no",
              value |-> << <<optimizer>>,
                           <<get_scheduler(store.scheduler.name, optimizer,
                                           NumWarmupSteps(store, raw, t).value,
                                           NumTrainingSteps(raw, t))>> >>,
              evaluated |-> <<"param_groups", "get_optimizer", "num_warmup_steps",
                              "num_training_steps", "get_scheduler">>]
        ELSE [raised |-> "no",
              value |-> optimizer,
              evaluated |-> <<"param_groups", "get_optimizer">>]

configure_optimizers ==
    /\ "optimizer" \in DOMAIN hparams
    /\ call' = [op |-> "configure_optimizers",
                out |-> ConfigureOptimizers(hparams, loaderLen, trainer)]
    /\ UNCHANGED <<hparams, trainer, loaderLen, named, attrs>>

\* the stores, trainers and parameters the specification draws
OptimStores ==
    { [trainer |-> [id |-> 1], optimizer |-> o] : o \in OptimizerSections } \cup
    { [trainer |-> [id |-> 1], optimizer |-> o, scheduler |-> sec] :
        o \in OptimizerSections, sec \in WarmupSections }
OptimTrainers ==
    { t \in Trainers : /\ t.limit_train_batches = PyFloat(4, 4)
                       /\ t.num_processes = 1
                       /\ t.tpu_cores = None
                       /\ t.max_epochs = 3 }
OptimNames == { <<"w">>, <<"B", "i", "a", "S">>, <<"B", "n">> }
OptimParameterLists == { q \in NamedParameterLists : Range(q) \subseteq OptimNames }

InitOptim ==
    /\ hparams \in OptimStores
    /\ trainer \in OptimTrainers
    /\ loaderLen \in RawBatchCounts
    /\ named \in OptimParameterLists
    /\ attrs = EmptyMap
    /\ call = NoCall

NextOptim == configure_optimizers

SpecOptim == InitOptim /\ [][NextOptim]_vars

Count(q, x) == Cardinality({ i \in 1..Len(q) : q[i] = x })

\* C6: configure_optimizers builds exactly one optimizer from optimizer.name,
\* param_groups() and optimizer.params; with a 'scheduler' key in the store it
\* also builds one scheduler from that optimizer, num_warmup_steps and
\* num_training_steps and returns ([optimizer], [scheduler]); without one it
\* returns the optimizer alone and evaluates neither get_scheduler nor
\* num_warmup_steps.
C6_OptimizerAndScheduler ==
    call.op = "configure_optimizers" =>
        LET optimizer == [kind |-> "optimizer", name |-> hparams.optimizer.name,
                          param_groups |-> ParamGroupsValue,
                          kwargs |-> hparams.optimizer.params]
        IN  /\ call.out.raised = "no"
            /\ Count(call.out.evaluated, "get_optimizer") = 1
            /\ "scheduler" \in DOMAIN hparams =>
                 /\ Count(call.out.evaluated, "get_scheduler") = 1
                 /\ call.out.value =
                      << <<optimizer>>,
                         << [kind |-> "scheduler", name |-> hparams.scheduler.name,
                             optimizer |-> optimizer,
                             num_warmup_steps |-> NumWarmupSteps(hparams, loaderLen, trainer).value,
                             num_training_steps |-> NumTrainingSteps(loaderLen, trainer)] >> >>
            /\ "scheduler" \notin DOMAIN hparams =>
                 /\ call.out.value = optimizer
                 /\ Count(call.out.evaluated, "get_scheduler") = 0
                 /\ Count(call.out.evaluated, "num_warmup_steps") = 0

\* no 'scheduler' key, parameters in both groups: the optimizer came back alone
C6_Witness ==
    /\ call.op = "configure_optimizers"
    /\ "scheduler" \notin DOMAIN hparams
    /\ call.out.raised = "no"
    /\ call.out.value.kind = "optimizer"
    /\ call.out.value.param_groups[1].params # <<>>
    /\ call.out.value.param_groups[2].params # <<>>

-----------------------------------------------------------------------------
(* BaseDataModule *)

MaxBatch == 2
MaxItems == 2

\* a dataset of n items; torch.utils.data.DataLoader is external: the loader
\* is the record of what it was built from, and iterating it yields the items
\* in order (or in any order when shuffle is set) in batches of batch_size,
\* the last one possibly shorter
Dataset(n) == [type |-> "Dataset", items |-> [i \in 1..n |-> i]]
DataLoader(dataset, batch_size, shuffle, collate_fn) ==
    [type |-> "DataLoader", dataset |-> dataset, batch_size |-> batch_size,
     shuffle |-> shuffle, collate_fn |-> collate_fn]

Orders(loader) ==
    LET items == loader.dataset.items IN
    IF loader.shuffle
    THEN { q \in [1..Len(items) -> Range(items)] : NoDuplicates(q) }
    ELSE { items }

Batch(loader, order, k) ==
    [type |-> "batch",
     items |-> SubSeq(order, (k - 1) * loader.batch_size + 1,
                      Min2(k * loader.batch_size, Len(order))),
     collate_fn |-> loader.collate_fn]

\* next(iter(loader)): the batches a fresh iterator may yield first (none for
\* an empty dataset: StopIteration)
NextIterSecond(loader) ==
    { Batch(loader, order, IF Len(order) > loader.batch_size THEN 2 ELSE 1)
        : order \in { o \in Orders(loader) : Len(o) > 0 } }
NextIter(loader) ==
    { Batch(loader, order, 1) : order \in { o \in Orders(loader) : Len(o) > 0 } }

DatasetAttr(name) ==
    CASE name = "train" -> "train_dataset"
      [] name = "val" -> "val_dataset"
      [] name = "test" -> "test_dataset"
      [] name = "predict" -> "predict_dataset"

\* train_dataloader(); reading self.train_dataset raises AttributeError while
\* the attribute was never assigned
TrainDataloader(a) ==
    IF "train_dataset" \notin DOMAIN a
    THEN [raised |-> "AttributeError", built |-> 0]
    ELSE [raised |-> "no", built |-> 1,
          value |-> DataLoader(a.train_dataset, a.batch_size, TRUE, a.collate_fn)]

\* val_dataloader() / test_dataloader() / predict_dataloader()
EvalDataloader(a, name) ==
    IF DatasetAttr(name) \notin DOMAIN a
    THEN [raised |-> "AttributeError", built |-> 0]
    ELSE IF a[DatasetAttr(name)] # None
         THEN [raised |-> "no", built |-> 1,
               value |-> DataLoader(a[DatasetAttr(name)], a.batch_size, FALSE, a.collate_fn)]
         ELSE [raised |-> "no", built |-> 0, value |-> None]

Dataloader(a, name) ==
    IF name = "train" THEN TrainDataloader(a) ELSE EvalDataloader(a, name)

SplitNames == {"train", "val", "test", "predict"}

\* the outcomes sample(dataset_name) may have
SampleOutcomes(a, name) ==
    IF name \notin SplitNames
    THEN { [raised |-> "UnboundLocalError", built |-> 0] }
    ELSE LET got == Dataloader(a, name) IN
         IF got.raised # "no" THEN { got }
         ELSE IF got.value = None THEN { [raised |-> "no", built |-> 0, value |-> None] }
         ELSE IF NextIter(got.value) = {}
              THEN { [raised |-> "StopIteration", built |-> 1] }
              ELSE { [raised |-> "no", built |-> 1, value |-> b] : b \in NextIter(got.value) }

train_dataloader ==
    /\ call' = [op |-> "train_dataloader", name |-> "train", out |-> TrainDataloader(attrs)]
    /\ UNCHANGED <<hparams, trainer, loaderLen, named, attrs>>

val_dataloader ==
    /\ call' = [op |-> "val_dataloader", name |-> "val", out |-> EvalDataloader(attrs, "val")]
    /\ UNCHANGED <<hparams, trainer, loaderLen, named, attrs>>

test_dataloader ==
    /\ call' = [op |-> "test_dataloader", name |-> "test", out |-> EvalDataloader(attrs, "test")]
    /\ UNCHANGED <<hparams, trainer, loaderLen, named, attrs>>

predict_dataloader ==
    /\ call' = [op |-> "predict_dataloader", name |-> "predict",
                out |-> EvalDataloader(attrs, "predict")]
    /\ UNCHANGED <<hparams, trainer, loaderLen, named, attrs>>

sample(name) ==
    /\ \E o \in SampleOutcomes(attrs, name) :
         call' = [op |-> "sample", name |-> name, out |-> o]
    /\ UNCHANGED <<hparams, trainer, loaderLen, named, attrs>>

\* setup as BaseDataModule defines it
setup(stage) ==
    /\ call' = [op |-> "setup", name |-> stage, out |-> [raised |-> "NotImplementedError", built |-> 0]]
    /\ UNCHANGED <<hparams, trainer, loaderLen, named, attrs>>

\* setup as a concrete subtype overrides it: it assigns the dataset handles of
\* the stage, the optional ones to a dataset or to None, or leaves them alone
TrainDatasets == { Dataset(n) : n \in 1..MaxItems }
EvalDatasets == { Dataset(n) : n \in 0..MaxItems } \cup { None }
Assignments(stage) ==
    CASE stage = "fit" ->
           { [train_dataset |-> d] : d \in TrainDatasets } \cup
           { [train_dataset |-> d, val_dataset |-> e] : d \in TrainDatasets, e \in EvalDatasets }
      [] stage = "test" -> { [test_dataset |-> e] : e \in EvalDatasets }
      [] stage = "predict" -> { [predict_dataset |-> e] : e \in EvalDatasets }
Stages == {"fit", "test", "predict"}

setup_override(stage) ==
    /\ \E assigned \in Assignments(stage) : attrs' = Merge(attrs, assigned)
    /\ call' = [op |-> "setup", name |-> stage, out |-> [raised |-> "no", built |-> 0]]
    /\ UNCHANGED <<hparams, trainer, loaderLen, named>>

\* BaseDataModule.__init__(batch_size, collate_fn)
CollateFns == { None, [type |-> "function"] }
InitData ==
    /\ hparams = EmptyMap
    /\ trainer = None
    /\ loaderLen = 0
    /\ named = <<>>
    /\ \E b \in 1..MaxBatch, c \in CollateFns : attrs = [batch_size |-> b, collate_fn |-> c]
    /\ call = NoCall

NextData ==
    \/ \E stage \in Stages : setup(stage)
    \/ \E stage \in Stages : setup_override(stage)
    \/ train_dataloader
    \/ val_dataloader
    \/ test_dataloader
    \/ predict_dataloader
    \/ \E name \in SplitNames \cup {"other"} : sample(name)

SpecData == InitData /\ [][NextData]_vars

\* the dataset the data module holds for a split, if one was assigned
Assigned(name) ==
    DatasetAttr(name) \in DOMAIN attrs /\ attrs[DatasetAttr(name)] # None

IsLoader(v, name, shuffle) ==
    v = [type |-> "DataLoader", dataset |-> attrs[DatasetAttr(name)],
         batch_size |-> attrs.batch_size, shuffle |-> shuffle,
         collate_fn |-> attrs.collate_fn]

\* C7: in every state reached by construction, setup and loader calls,
\* val_dataloader() (test_dataloader(), predict_dataloader()) returns None
\* when no dataset was assigned for it and a new unshuffled loader otherwise;
\* train_dataloader() raises AttributeError when no train dataset was
\* assigned and returns a new shuffled loader otherwise.
C7_LoadersOfUnassigned ==
    /\ call.op \in {"val_dataloader", "test_dataloader", "predict_dataloader"} =>
         IF Assigned(call.name)
         THEN /\ call.out.raised = "no" /\ call.out.built = 1
              /\ IsLoader(call.out.value, call.name, FALSE)
         ELSE /\ call.out.raised = "no"
              /\ call.out.value = None
    /\ call.op = "train_dataloader" =>
         IF Assigned("train")
         THEN /\ call.out.raised = "no" /\ call.out.built = 1
              /\ IsLoader(call.out.value, "train", TRUE)
         ELSE call.out.raised = "AttributeError"

\* the first min(batch_size, length) items of the dataset, in dataset order
IsFirstBatchInOrder(b, name) ==
    LET items == attrs[DatasetAttr(name)].items
        n == Min2(attrs.batch_size, Len(items))
    IN  /\ b.type = "batch"
        /\ Len(b.items) = n
        /\ \A i \in 1..n : b.items[i] = items[i]

\* batch_size distinct items of the dataset (fewer when it is shorter)
IsSomeFirstBatch(b, name) ==
    LET items == attrs[DatasetAttr(name)].items IN
    /\ b.type = "batch"
    /\ Len(b.items) = Min2(attrs.batch_size, Len(items))
    /\ NoDuplicates(b.items)
    /\ Range(b.items) \subseteq Range(items)

NonEmpty(name) == Assigned(name) /\ Len(attrs[DatasetAttr(name)].items) > 0

\* C10: sample(name), name one of train/val/test/predict, builds a loader on
\* every call and returns the first batch it yields, or None when the loader
\* is None; it changes nothing of the data module, so for an assigned
\* unshuffled dataset (val, test, predict) it returns, whatever calls came
\* before, the first batch_size items in dataset order; only sample('train')
\* may return another batch of the dataset.
C10_SampleFirstBatch ==
    /\ [](  (call.op = "sample" /\ call.name \in SplitNames) =>
              /\ (DatasetAttr(call.name) \in DOMAIN attrs /\ attrs[DatasetAttr(call.name)] = None)
                   => (call.out.raised = "no" /\ call.out.value = None /\ call.out.built = 0)
              /\ (NonEmpty(call.name) /\ call.name # "train")
                   => /\ call.out.raised = "no" /\ call.out.built = 1
                      /\ IsFirstBatchInOrder(call.out.value, call.name)
              /\ (NonEmpty(call.name) /\ call.name = "train")
                   => /\ call.out.raised = "no" /\ call.out.built = 1
                      /\ IsSomeFirstBatch(call.out.value, call.name) )
    /\ [][call'.op = "sample" => attrs' = attrs]_vars

\* sample('val') of a dataset longer than a batch, in a data module whose
\* four datasets were assigned by earlier setup calls
C10_Witness ==
    /\ call.op = "sample" /\ call.name = "val"
    /\ NonEmpty("val")
    /\ Len(attrs.val_dataset.items) > attrs.batch_size
    /\ call.out.value.items = SubSeq(attrs.val_dataset.items, 1, attrs.batch_size)
    /\ Assigned("train") /\ Assigned("test") /\ Assigned("predict")

=============================================================================
